---- MODULE Spec2Model ----
(***************************************************************************)
(* Move selection of the hylimo diagram editor: MovedElementsSelector      *)
(* (packages/diagram-ui/.../canvas-content-move-edit/                      *)
(* movedElementsSelector.ts).  The constructor runs registerElements,      *)
(* pruneMovedElements and registerAdditionalImplicitlyMovedElements over   *)
(* an immutable content graph (the sprotty model index).                   *)
(***************************************************************************)
EXTENDS Integers, Sequences, FiniteSets, TLC

VARIABLES
    index,                    \* the content graph: id -> element (ModelIndexImpl)
    selected,                 \* constructor argument: the selected elements, in order
    movedElements,            \* Set in insertion order
    implicitlyMovedElements,  \* Set in insertion order
    hasConflict,
    isMovedLookup,            \* Map<string, boolean>
    currentElements,          \* work set of the loop of registerElements
    pc,                       \* position in the constructor, or in projectPointOnLine
    secondOutcome,            \* <<what a second construction on the same arguments gave>>
    call,                     \* the arguments of a call of projectPointOnLine
    originalProjection,       \* LineEngine.DEFAULT.projectPoint(point, transformedLine, forcedDistance)
    optionsToTest,            \* the rounding candidates
    projection,               \* the ProjectionResult returned
    layoutCall,               \* the arguments of a call of outline or calculateMarkerBounds
    layoutResult,             \* <<the Line or Bounds that call returned>>
    connections,              \* the CanvasConnections created so far, in order
    raised                    \* <<the message of the error the last operation raised>>

selectorVars == <<index, selected, movedElements, implicitlyMovedElements, hasConflict,
                  isMovedLookup, currentElements, secondOutcome>>
projectionVars == <<call, originalProjection, optionsToTest, projection>>
layoutVars == <<layoutCall, layoutResult, connections, raised>>

vars == <<index, selected, movedElements, implicitlyMovedElements, hasConflict,
          isMovedLookup, currentElements, pc, secondOutcome,
          call, originalProjection, optionsToTest, projection,
          layoutCall, layoutResult, connections, raised>>

(***************************************************************************)
(* Bounds                                                                  *)
(***************************************************************************)
\* longest selection handed to the constructor
MaxSelected == 2

(***************************************************************************)
(* The content graph                                                       *)
(***************************************************************************)
\* an optional field that is not set (pos of a Shape anchored at the origin)
Nil == "nil"
\* what index.getById returns for an id it does not know
Undefined == "undefined"
\* an id no element of the graph carries
Dangling == "zz"

ShapeKinds == {"SCanvasElement"}
PointKinds == {"SAbsolutePoint", "SRelativePoint", "SLinePoint"}

\* A straight or axis-aligned segment (only its end matters for a move).
Line(end) == [end |-> end, bezier |-> FALSE, startControlPoint |-> Nil, endControlPoint |-> Nil]
\* SCanvasBezierSegment
Bezier(c1, c2, end) == [end |-> end, bezier |-> TRUE, startControlPoint |-> c1, endControlPoint |-> c2]

Blank(kind, parent) ==
    [kind |-> kind, parent |-> parent, pos |-> Nil, target |-> Nil, editable |-> FALSE,
     lineProvider |-> Nil, linePos |-> <<0, 0>>, start |-> Nil, segments |-> <<>>]

Root == Blank("SRoot", Nil)
Canvas(parent) == Blank("SCanvas", parent)
AbsolutePoint(parent) == Blank("SAbsolutePoint", parent)
\* editable: the point has a move-x or a move-y edit
RelativePoint(parent, target, editable) ==
    [Blank("SRelativePoint", parent) EXCEPT !.target = target, !.editable = editable]
\* linePos: <<1, i>> for a (segment i, relative position) pair,
\*          <<0, t>> for the global fraction t / PosScale
LinePoint(parent, provider, linePos) ==
    [Blank("SLinePoint", parent) EXCEPT !.lineProvider = provider, !.linePos = linePos]
CanvasElement(parent, pos) == [Blank("SCanvasElement", parent) EXCEPT !.pos = pos]
CanvasConnection(parent, start, segments) ==
    [Blank("SCanvasConnection", parent) EXCEPT !.start = start, !.segments = segments]
\* pos: "start" or "end"
Marker(parent, anchor) == [Blank("SMarker", parent) EXCEPT !.pos = anchor]

\* denominator of a Line Point's global fraction
PosScale == 4

(***************************************************************************)
(* The diagrams the selector is run on.  One canvas holds a Shape "s" with *)
(* a nested canvas, a Connector "conn" from "a" (over "b") to "e" with a   *)
(* Marker, and Points of every kind.  The fields below vary; every         *)
(* reference chain is acyclic.                                             *)
(***************************************************************************)
\* the kinds of Point the Connector's last segment may end at
EndVariants == {"absolute", "relativeEditable", "relativeFixed", "line"}
\* <<target, editable>> of the Relative Point "r"
RelVariants == {<<"s", FALSE>>, <<"conn", FALSE>>}
\* pos of the Line Point "l" on the Connector: segment 0 as a pair, the last segment as a fraction
LineVariants == {<<1, 0>>, <<0, PosScale>>}
\* the one reference that resolves to no element ("zz") or to an element of
\* an unexpected kind ("root" as line provider), if any; "segmentEndUnused": the
\* Connector's end is unknown, its Marker is empty and the Line Point lies on the Shape
BrokenVariants ==
    {"none", "shapePos", "relTarget", "lineProvider", "segmentEnd", "controlPoint",
     "lineProviderKind", "segmentEndUnused"}

Params ==
    \* every kind of end Point, with and without an anchored Shape
    [sPos : {Nil, "a"}, e : EndVariants, r : {<<"s", FALSE>>}, l : {<<1, 0>>},
     twoSegments : BOOLEAN, bezier : BOOLEAN, anchor : {"end"}, broken : {"none"},
     inner : {"point"}]
        \cup
    \* every place of the Line Point and of the Marker
    [sPos : {"a"}, e : {"absolute", "relativeFixed"}, r : RelVariants, l : LineVariants,
     twoSegments : BOOLEAN, bezier : BOOLEAN, anchor : {"start", "end"}, broken : {"none"},
     inner : {"point"}]
        \cup
    \* a reference that does not resolve
    [sPos : {"a"}, e : {"absolute"}, r : {<<"s", FALSE>>}, l : {<<1, 0>>},
     twoSegments : {FALSE}, bezier : BOOLEAN, anchor : {"end"}, broken : BrokenVariants,
     inner : {"point"}]
        \cup
    \* Shapes without pos in the canvas of the Shape and in the Marker
    [sPos : {"a"}, e : {"absolute"}, r : {<<"s", FALSE>>}, l : LineVariants,
     twoSegments : BOOLEAN, bezier : {FALSE}, anchor : {"start", "end"}, broken : {"none"},
     inner : {"shape"}]

EndPoint(p) ==
    CASE p.e = "absolute" -> AbsolutePoint("root")
      [] p.e = "relativeEditable" -> RelativePoint("root", "a", TRUE)
      [] p.e = "relativeFixed" -> RelativePoint("root", "s", FALSE)
      [] p.e = "line" -> LinePoint("root", "s", <<0, 2>>)

\* the content of the nested canvases: an Absolute Point, or a Shape without pos
InnerContent(p, parent) ==
    IF p.inner = "shape" THEN CanvasElement(parent, Nil) ELSE AbsolutePoint(parent)

Segments(p) ==
    LET end == IF p.broken \in {"segmentEnd", "segmentEndUnused"} THEN Dangling ELSE "e"
        c1 == IF p.broken = "controlPoint" THEN Dangling ELSE "k1"
        last == IF p.bezier THEN Bezier(c1, "k2", end) ELSE Line(end)
    IN  IF p.twoSegments THEN <<Line("b"), last>> ELSE <<last>>

\* the ids elements may carry, in document order (the order of ModelIndexImpl.all())
DocumentOrder ==
    <<"root", "a", "b", "k1", "k2", "s", "sc", "i", "e", "r", "conn", "m", "mi", "l">>

IdSet(p) ==
    {"root", "a", "s", "sc", "i", "e", "r", "conn", "m", "l"}
        \cup (IF p.broken = "segmentEndUnused" THEN {} ELSE {"mi"})
        \cup (IF p.twoSegments THEN {"b"} ELSE {}) \cup (IF p.bezier THEN {"k1", "k2"} ELSE {})

Diagram(p) ==
    [id \in IdSet(p) |->
        CASE id = "root" -> Root
          [] id = "a" -> AbsolutePoint("root")
          [] id = "b" -> AbsolutePoint("root")
          [] id = "k1" -> AbsolutePoint("root")
          [] id = "k2" -> RelativePoint("root", "e", FALSE)
          [] id = "s" -> CanvasElement("root", IF p.broken = "shapePos" THEN Dangling ELSE p.sPos)
          [] id = "sc" -> Canvas("s")
          [] id = "i" -> InnerContent(p, "sc")
          [] id = "e" -> EndPoint(p)
          [] id = "r" -> RelativePoint("root",
                             IF p.broken = "relTarget" THEN Dangling ELSE p.r[1], p.r[2])
          [] id = "conn" -> CanvasConnection("root", "a", Segments(p))
          [] id = "l" -> LinePoint("root",
                             CASE p.broken = "lineProvider" -> Dangling
                               [] p.broken = "lineProviderKind" -> "root"
                               [] p.broken = "segmentEndUnused" -> "s"
                               [] OTHER -> "conn",
                             p.l)
          [] id = "m" -> Marker("conn", p.anchor)
          [] id = "mi" -> InnerContent(p, "m")]

Diagrams == {Diagram(p) : p \in Params}

\* ModelIndexImpl.all()
AllIds == SelectSeq(DocumentOrder, LAMBDA id : id \in DOMAIN index)

\* what a caller can hand to the constructor: Shapes, Points, Markers, Connectors
Selectable(ix) ==
    {id \in DOMAIN ix : ix[id].kind \in ShapeKinds \cup PointKinds \cup {"SMarker", "SCanvasConnection"}}

(***************************************************************************)
(* Accessors of the model index and of the element classes                 *)
(***************************************************************************)
\* index.getById(id): the element, here named by its id, or undefined
getById(id) == IF id \in DOMAIN index THEN id ELSE Undefined

KindOf(element) == IF element = Undefined THEN "undefined" ELSE index[element].kind
\* element instanceof SCanvasElement
IsCanvasElement(element) == KindOf(element) \in ShapeKinds
\* element instanceof SCanvasPoint
IsCanvasPoint(element) == KindOf(element) \in PointKinds

\* connection.segments.at(0)!.end
FirstSegmentEnd(connection) == index[connection].segments[1].end

\* connection.segments.at(-1)!.end
LastSegmentEnd(connection) ==
    index[connection].segments[Len(index[connection].segments)].end

\* SMarker.posId: the Point at the marker's anchor of its owning Connector
posId(marker) ==
    IF index[marker].pos = "start"
    THEN index[index[marker].parent].start
    ELSE LastSegmentEnd(index[marker].parent)

Min(x, y) == IF x < y THEN x ELSE y

\* LinePoint.calcSegmentIndex(pos, segmentCount): the segment a Line Point lies on
calcSegmentIndex(linePos, segmentCount) ==
    IF linePos[1] = 1
    THEN linePos[2]
    ELSE Min((linePos[2] * segmentCount) \div PosScale, segmentCount - 1)

\* sprotty's findParentByFeature(element, e => e instanceof SMarker || e instanceof SCanvasElement):
\* the nearest of element and its ancestors that is a Marker or a Shape, or undefined
RECURSIVE findParentByFeature(_)
findParentByFeature(element) ==
    IF element = Nil THEN Undefined
    ELSE IF index[element].kind \in ShapeKinds \cup {"SMarker"} THEN element
    ELSE findParentByFeature(index[element].parent)

\* Set.add on a Set kept in insertion order
SetAdd(set, x) == IF \E j \in 1..Len(set) : set[j] = x THEN set ELSE Append(set, x)
ToSet(set) == {set[j] : j \in 1..Len(set)}
\* Set.delete of every member of gone
SetDeleteAll(set, gone) == SelectSeq(set, LAMBDA x : x \notin gone)

(***************************************************************************)
(* The recursive checks.  Each takes the selector's mutable fields as st   *)
(* = [movedElements, isMovedLookup, hasConflict, thrown] and returns them  *)
(* updated, with the returned boolean in result.  thrown: an Error was     *)
(* raised and propagates.                                                  *)
(***************************************************************************)
Return(st, value) ==
    [result |-> value, movedElements |-> st.movedElements, isMovedLookup |-> st.isMovedLookup,
     hasConflict |-> st.hasConflict, thrown |-> st.thrown]
Throw(st) == [Return(st, FALSE) EXCEPT !.thrown = TRUE]
LookupSet(st, id, value) ==
    [st EXCEPT !.isMovedLookup = (id :> value) @@ st.isMovedLookup]

Some(values) == \E j \in 1..Len(values) : values[j]
SomeNot(values) == \E j \in 1..Len(values) : ~values[j]

\* the relevant points of a segment: the previous end (or the start), the end, the control points
relevantPoints(connection, segmentIndex) ==
    LET segment == index[connection].segments[segmentIndex + 1]
        first == IF segmentIndex = 0
                 THEN index[connection].start
                 ELSE index[connection].segments[segmentIndex].end
    IN  <<first, segment.end>> \o
        (IF segment.bezier THEN <<segment.startControlPoint, segment.endControlPoint>> ELSE <<>>)

All(values) == \A j \in 1..Len(values) : values[j]

\* the rule with every in place of some
segmentResultEvery(isMovedFlags) == All(isMovedFlags)

\* the rule of isCanvasConnectionSegmentMoved on the points' moved flags
segmentResult(isMovedFlags) == Some(isMovedFlags)

\* this.isMovedLookup.set(id, false): the entry made before the result is known
MemoizePlaceholder(r, id) == IF r.thrown THEN r ELSE LookupSet(r, id, FALSE)

\* this.isMovedLookup.set(id, r.result) after a call that returned r
Memoize(r, id) == IF r.thrown THEN r ELSE LookupSet(r, id, r.result)

\* the end of isCanvasConnectionSegmentMoved without the consistency check
segmentVerdictSilent(m, consistencyChecks) ==
    IF m.thrown THEN Throw(m) ELSE Return(m, segmentResult(m.result))

\* the end of isCanvasConnectionSegmentMoved reporting a conflict for every
\* moved segment, without the test for an unmoved point
segmentVerdictEager(m, consistencyChecks) ==
    IF m.thrown THEN Throw(m)
    ELSE IF consistencyChecks /\ segmentResult(m.result)
    THEN [Return(m, segmentResult(m.result)) EXCEPT !.hasConflict = TRUE]
    ELSE Return(m, segmentResult(m.result))

\* the end of isCanvasConnectionSegmentMoved: m.result holds the points' flags
segmentVerdict(m, consistencyChecks) ==
    IF m.thrown THEN Throw(m)
    ELSE IF consistencyChecks /\ segmentResult(m.result) /\ SomeNot(m.result)
    THEN [Return(m, segmentResult(m.result)) EXCEPT !.hasConflict = TRUE]
    ELSE Return(m, segmentResult(m.result))

\* every Marker taken to sit on the first segment
markerSegmentIndexFirst(marker) == 0

\* the segment a Marker's canvas hangs on: 0 at "start", the last one at "end"
markerSegmentIndex(marker) ==
    IF index[marker].pos = "start" THEN 0 ELSE Len(index[index[marker].parent].segments) - 1

RECURSIVE isMoved(_, _, _)
RECURSIVE isElementImplicitlyMoved(_, _, _)
RECURSIVE isCanvasConnectionSegmentMoved(_, _, _, _)
RECURSIVE isParentCanvasImplicitlyMoved(_, _, _)
RECURSIVE mapIsMoved(_, _, _, _)

\* isElementMoved without the look into movedElements
isElementMovedImplicitOnly(element, consistencyChecks, st) ==
    isElementImplicitlyMoved(element, consistencyChecks, st)

isElementMoved(element, consistencyChecks, st) ==
    IF element \in ToSet(st.movedElements)
    THEN Return(st, TRUE)
    ELSE isElementImplicitlyMoved(element, consistencyChecks, st)

isMoved(elementId, consistencyChecks, st) ==
    IF elementId \in DOMAIN st.isMovedLookup
    THEN Return(st, st.isMovedLookup[elementId])
    ELSE IF IsCanvasElement(getById(elementId)) \/ IsCanvasPoint(getById(elementId))
    THEN Memoize(isElementMoved(getById(elementId), consistencyChecks, st), elementId)
    ELSE Throw(st)

\* relevantPoints.map((point) => this.isMoved(point, consistencyChecks)), left to right;
\* st.result collects the flags
mapStep(r, flags) == [r EXCEPT !.result = Append(flags, r.result)]
mapIsMoved(points, j, consistencyChecks, st) ==
    IF st.thrown \/ j > Len(points)
    THEN st
    ELSE mapIsMoved(points, j + 1, consistencyChecks,
                    mapStep(isMoved(points[j], consistencyChecks, st), st.result))

isCanvasConnectionSegmentMoved(connection, segmentIndex, consistencyChecks, st) ==
    segmentVerdict(mapIsMoved(relevantPoints(connection, segmentIndex), 1, consistencyChecks,
                              Return(st, <<>>)),
                   consistencyChecks)

isParentCanvasImplicitlyMoved(element, consistencyChecks, st) ==
    LET canvas == index[element].parent
        parentCanvasContent == findParentByFeature(canvas)
    IN  IF canvas \in DOMAIN st.isMovedLookup
        THEN Return(st, st.isMovedLookup[canvas])
        ELSE Memoize(
               CASE IsCanvasElement(parentCanvasContent) ->
                      isMoved(parentCanvasContent, consistencyChecks, st)
                 [] KindOf(parentCanvasContent) = "SMarker" ->
                      isCanvasConnectionSegmentMoved(
                          index[parentCanvasContent].parent,
                          markerSegmentIndex(parentCanvasContent),
                          consistencyChecks, st)
                 [] OTHER -> Return(st, FALSE),
               canvas)

\* decidingId taking every line provider that is no Connector for a Shape
decidingIdUnchecked(element) ==
    CASE IsCanvasElement(element) -> index[element].pos
      [] KindOf(element) = "SRelativePoint" ->
            IF KindOf(getById(index[element].target)) = "SCanvasConnection"
            THEN LastSegmentEnd(getById(index[element].target))
            ELSE index[element].target
      [] KindOf(element) = "SLinePoint" ->
            IF KindOf(getById(index[element].lineProvider)) # "SCanvasConnection"
            THEN index[element].lineProvider
            ELSE Nil
      [] OTHER -> Nil

\* the id whose moved flag decides element, where one id does: a Shape's pos,
\* a Relative Point's target (for a Connector: the end of its last segment),
\* a Line Point's Shape
decidingId(element) ==
    CASE IsCanvasElement(element) -> index[element].pos
      [] KindOf(element) = "SRelativePoint" ->
            IF KindOf(getById(index[element].target)) = "SCanvasConnection"
            THEN LastSegmentEnd(getById(index[element].target))
            ELSE index[element].target
      [] KindOf(element) = "SLinePoint" ->
            IF IsCanvasElement(getById(index[element].lineProvider))
            THEN index[element].lineProvider
            ELSE Nil
      [] OTHER -> Nil

isElementImplicitlyMoved(element, consistencyChecks, st) ==
    LET kind == KindOf(element)
        id == decidingId(element)
    IN  CASE id # Nil ->
                isMoved(id, consistencyChecks, st)
          [] id = Nil /\ kind \in ShapeKinds \cup {"SAbsolutePoint"} ->
                isParentCanvasImplicitlyMoved(element, consistencyChecks, st)
          [] id = Nil /\ kind = "SLinePoint"
               /\ KindOf(getById(index[element].lineProvider)) = "SCanvasConnection" ->
                isCanvasConnectionSegmentMoved(
                    index[element].lineProvider,
                    calcSegmentIndex(index[element].linePos,
                                     Len(index[index[element].lineProvider].segments)),
                    consistencyChecks, st)
          [] OTHER -> Return(st, FALSE)

(***************************************************************************)
(* The three passes of the constructor                                     *)
(***************************************************************************)
\* registerElements recording the element, and following no reference
registerElementOnly(element, acc) ==
    [movedElements |-> SetAdd(acc.movedElements, element), newElements |-> acc.newElements]

\* registerElements putting the element itself back into the work set
registerElementRequeued(element, acc) ==
    [movedElements |-> SetAdd(acc.movedElements, element),
     newElements |-> SetAdd(acc.newElements, element)]

\* registerElements that does not record a Relative Point without move edit,
\* and only queues its target
registerElementTargetOnly(element, acc) ==
    LET kind == KindOf(element)
        fixed == kind = "SRelativePoint" /\ ~index[element].editable
        new1 == IF kind = "SCanvasConnection"
                THEN SetAdd(acc.newElements, getById(LastSegmentEnd(element)))
                ELSE IF kind = "SMarker"
                THEN SetAdd(acc.newElements, getById(posId(element)))
                ELSE acc.newElements
        moved1 == IF kind \in {"SCanvasConnection", "SMarker"} \/ fixed
                  THEN acc.movedElements
                  ELSE SetAdd(acc.movedElements, element)
        new2 == IF IsCanvasElement(element)
                THEN IF index[element].pos # Nil
                     THEN SetAdd(new1, getById(index[element].pos))
                     ELSE new1
                ELSE IF fixed
                THEN SetAdd(new1, getById(index[element].target))
                ELSE new1
    IN  [movedElements |-> moved1, newElements |-> new2]

\* what registerElements does with one element of currentElements:
\* acc = [movedElements, newElements]
registerElement(element, acc) ==
    LET kind == KindOf(element)
        new1 == IF kind = "SCanvasConnection"
                THEN SetAdd(acc.newElements, getById(LastSegmentEnd(element)))
                ELSE IF kind = "SMarker"
                THEN SetAdd(acc.newElements, getById(posId(element)))
                ELSE acc.newElements
        moved1 == IF kind \in {"SCanvasConnection", "SMarker"}
                  THEN acc.movedElements
                  ELSE SetAdd(acc.movedElements, element)
        new2 == IF IsCanvasElement(element)
                THEN IF index[element].pos # Nil
                     THEN SetAdd(new1, getById(index[element].pos))
                     ELSE new1
                ELSE IF kind = "SRelativePoint" /\ ~index[element].editable
                THEN SetAdd(new1, getById(index[element].target))
                ELSE new1
    IN  [movedElements |-> moved1, newElements |-> new2]

\* one round of the while loop of registerElements over currentElements
RECURSIVE registerRound(_, _, _)
registerRound(elements, j, acc) ==
    IF j > Len(elements) THEN acc
    ELSE registerRound(elements, j + 1, registerElement(elements[j], acc))

Fields ==
    [movedElements |-> movedElements, isMovedLookup |-> isMovedLookup,
     hasConflict |-> hasConflict, thrown |-> FALSE]

\* implicitlyMovedElements.add(element) if r.result (isElementImplicitlyMoved) is true
addIfMoved(r, implicit, element) ==
    [st |-> r,
     implicit |-> IF ~r.thrown /\ r.result THEN SetAdd(implicit, element) ELSE implicit]

\* the first loop of pruneMovedElements stepping over every second element
RECURSIVE pruneCollectSkipping(_, _, _)
pruneCollectSkipping(elements, j, acc) ==
    IF acc.st.thrown \/ j > Len(elements) THEN acc
    ELSE pruneCollectSkipping(elements, j + 2,
                              addIfMoved(isElementImplicitlyMoved(elements[j], TRUE, acc.st),
                                         acc.implicit, elements[j]))

\* first loop of pruneMovedElements over elements: acc = [st, implicit], st the fields
RECURSIVE pruneCollect(_, _, _)
pruneCollect(elements, j, acc) ==
    IF acc.st.thrown \/ j > Len(elements) THEN acc
    ELSE pruneCollect(elements, j + 1,
                      addIfMoved(isElementImplicitlyMoved(elements[j], TRUE, acc.st),
                                 acc.implicit, elements[j]))

\* pruneMovedElements without its second loop
pruneDeleteNothing(c) == c

\* second loop of pruneMovedElements
pruneDelete(c) ==
    IF c.st.thrown THEN c
    ELSE [c EXCEPT !.st.movedElements = SetDeleteAll(c.st.movedElements, ToSet(c.implicit))]

\* pruneMovedElements: [st, implicit] after both loops
pruneMovedElements(st, implicit) ==
    pruneDelete(pruneCollect(st.movedElements, 1, [st |-> st, implicit |-> implicit]))

\* a constructor that leaves the whole-graph sweep out
sweepNothing(elements, j, acc) == acc

\* registerAdditionalImplicitlyMovedElements calling isElementImplicitlyMoved(element, true)
RECURSIVE sweepChecked(_, _, _)
sweepChecked(elements, j, acc) ==
    IF acc.st.thrown \/ j > Len(elements) THEN acc
    ELSE IF (IsCanvasElement(elements[j]) \/ IsCanvasPoint(elements[j]))
            /\ elements[j] \notin ToSet(acc.st.movedElements)
    THEN sweepChecked(elements, j + 1,
                      addIfMoved(isElementImplicitlyMoved(elements[j], TRUE, acc.st),
                                 acc.implicit, elements[j]))
    ELSE sweepChecked(elements, j + 1, acc)

\* registerAdditionalImplicitlyMovedElements adding every Shape and Point
\* that is not in movedElements, whether implicitly moved or not
RECURSIVE sweepUnconditional(_, _, _)
sweepUnconditional(elements, j, acc) ==
    IF acc.st.thrown \/ j > Len(elements) THEN acc
    ELSE IF (IsCanvasElement(elements[j]) \/ IsCanvasPoint(elements[j]))
            /\ elements[j] \notin ToSet(acc.st.movedElements)
    THEN sweepUnconditional(elements, j + 1,
                            [acc EXCEPT !.implicit = SetAdd(acc.implicit, elements[j])])
    ELSE sweepUnconditional(elements, j + 1, acc)

\* registerAdditionalImplicitlyMovedElements over index.all()
RECURSIVE sweep(_, _, _)
sweep(elements, j, acc) ==
    IF acc.st.thrown \/ j > Len(elements) THEN acc
    ELSE IF (IsCanvasElement(elements[j]) \/ IsCanvasPoint(elements[j]))
            /\ elements[j] \notin ToSet(acc.st.movedElements)
    THEN sweep(elements, j + 1,
               addIfMoved(isElementImplicitlyMoved(elements[j], FALSE, acc.st),
                          acc.implicit, elements[j]))
    ELSE sweep(elements, j + 1, acc)

(***************************************************************************)
(* The state machine: new MovedElementsSelector(selected, index)           *)
(***************************************************************************)
\* no call of projectPointOnLine is under way
NoProjection ==
    /\ call = Nil
    /\ originalProjection = Nil
    /\ optionsToTest = <<>>
    /\ projection = Nil

\* no layout call is under way and no connection has been created
NoLayout ==
    /\ layoutCall = Nil
    /\ layoutResult = <<>>
    /\ connections = <<>>
    /\ raised = <<>>

\* the selections: sequences of distinct selectable elements
Selections(ix) ==
    {sel \in UNION {[1..n -> Selectable(ix)] : n \in 0..MaxSelected} :
        \A i, j \in 1..Len(sel) : i # j => sel[i] # sel[j]}

Init ==
    /\ index \in Diagrams
    /\ selected \in Selections(index)
    /\ movedElements = <<>>
    /\ implicitlyMovedElements = <<>>
    /\ hasConflict = FALSE
    /\ isMovedLookup = <<>>
    /\ currentElements = selected
    /\ pc = "registerElements"
    /\ secondOutcome = <<>>
    /\ NoProjection
    /\ NoLayout

\* one iteration of the while loop of registerElements
RegisterElements ==
    /\ pc = "registerElements"
    /\ currentElements # <<>>
    /\ LET r == registerRound(currentElements, 1,
                              [movedElements |-> movedElements, newElements |-> <<>>])
       IN  /\ movedElements' = r.movedElements
           /\ currentElements' = r.newElements
    /\ UNCHANGED <<index, selected, implicitlyMovedElements, hasConflict, isMovedLookup, pc>>
    /\ UNCHANGED <<secondOutcome, projectionVars, layoutVars>>

\* the loop of registerElements ends, and the pruning pass runs
PruneMovedElements ==
    /\ pc = "registerElements"
    /\ currentElements = <<>>
    /\ LET r == pruneMovedElements(Fields, implicitlyMovedElements)
       IN  /\ movedElements' = r.st.movedElements
           /\ implicitlyMovedElements' = r.implicit
           /\ hasConflict' = r.st.hasConflict
           /\ isMovedLookup' = r.st.isMovedLookup
           /\ pc' = IF r.st.thrown THEN "error" ELSE "pruned"
    /\ UNCHANGED <<index, selected, currentElements, secondOutcome, projectionVars, layoutVars>>

\* the whole-graph sweep, after which the constructor returns
RegisterAdditionalImplicitlyMovedElements ==
    /\ pc = "pruned"
    /\ LET r == sweep(AllIds, 1, [st |-> Fields, implicit |-> implicitlyMovedElements])
       IN  /\ movedElements' = r.st.movedElements
           /\ implicitlyMovedElements' = r.implicit
           /\ hasConflict' = r.st.hasConflict
           /\ isMovedLookup' = r.st.isMovedLookup
           /\ pc' = IF r.st.thrown THEN "error" ELSE "done"
    /\ UNCHANGED <<index, selected, currentElements, secondOutcome, projectionVars, layoutVars>>

\* pruneMovedElements called a second time, directly after the first
PruneAgain ==
    /\ pc = "pruned"
    /\ LET r == pruneMovedElements(Fields, implicitlyMovedElements)
       IN  /\ movedElements' = r.st.movedElements
           /\ implicitlyMovedElements' = r.implicit
           /\ hasConflict' = r.st.hasConflict
           /\ isMovedLookup' = r.st.isMovedLookup
           /\ pc' = IF r.st.thrown THEN "error" ELSE "prunedTwice"
    /\ UNCHANGED <<index, selected, currentElements, secondOutcome, projectionVars, layoutVars>>

\* the while loop of registerElements run to its end: acc = [movedElements, newElements]
RECURSIVE registerElementsLoop(_)
registerElementsLoop(acc) ==
    IF acc.newElements = <<>> THEN acc.movedElements
    ELSE registerElementsLoop(
             registerRound(acc.newElements, 1,
                           [movedElements |-> acc.movedElements, newElements |-> <<>>]))

\* a new selector whose isMovedLookup is the one the previous selector filled
staleFields ==
    [movedElements |-> <<>>, isMovedLookup |-> isMovedLookup, hasConflict |-> FALSE,
     thrown |-> FALSE]

\* the fields of a new selector, as their initialisers leave them
freshFields ==
    [movedElements |-> <<>>, isMovedLookup |-> <<>>, hasConflict |-> FALSE, thrown |-> FALSE]

\* what a caller sees of a construction: the error, or the three results
Outcome(st, implicit) ==
    IF st.thrown THEN [thrown |-> TRUE]
    ELSE [thrown |-> FALSE, movedElements |-> st.movedElements,
          implicitlyMovedElements |-> implicit, hasConflict |-> st.hasConflict]

\* new MovedElementsSelector(elements, index), from the first line to the last
construct(elements) ==
    LET expanded == registerElementsLoop([movedElements |-> freshFields.movedElements,
                                          newElements |-> elements])
        pruned == pruneMovedElements([freshFields EXCEPT !.movedElements = expanded],
                                     <<>>)
        swept == sweep(AllIds, 1, pruned)
    IN  Outcome(swept.st, swept.implicit)

\* a second selector is constructed from the same selection over the same index
ConstructAgain ==
    /\ pc \in {"done", "error"}
    /\ secondOutcome = <<>>
    /\ secondOutcome' = <<construct(selected)>>
    /\ UNCHANGED <<index, selected, movedElements, implicitlyMovedElements, hasConflict,
                   isMovedLookup, currentElements, pc, projectionVars, layoutVars>>

Next ==
    \/ RegisterElements
    \/ PruneMovedElements
    \/ RegisterAdditionalImplicitlyMovedElements
    \/ PruneAgain
    \/ ConstructAgain

Spec == Init /\ [][Next]_vars

\* the while loop of registerElements keeps running while it may
FairSpec == Spec /\ WF_vars(RegisterElements)

(***************************************************************************)
(* projectPointOnLine: projection of a point on a line with rounding.      *)
(* Numbers are fixed-point: a relativePos counts steps of 1 / One, a pos   *)
(* of a line of n segments counts steps of 1 / (n * One), world            *)
(* coordinates and distances count world units.  A line is the sequence    *)
(* of the directions of its segments, "E" or "N"; it starts at the origin, *)
(* each segment is One world units long, and the transform is the          *)
(* identity.                                                               *)
(***************************************************************************)
\* 1.0 as a relativePos
One == 8
\* 10 ** -15 as a relativePos: the numeric-noise floor, coarser than the engine's raw values
NoiseStep == 2
\* most segments of a line
MaxSegments == 2

Max(x, y) == IF x > y THEN x ELSE y

\* an optional number: undefined is <<>>, the number d is <<d>>
None == <<>>
The(x) == <<x>>

\* steps of a value per step of a relativePos: 1 for a relativePos, n for a pos
Scale(isSegment, line) == IF isSegment THEN 1 ELSE Len(line)
\* 1.0 as a value of the kind that is rounded
Full(isSegment, line) == One * Scale(isSegment, line)

\* Math.round(a / b) for b > 0
Round(a, b) == (2 * a + b) \div (2 * b)
\* SharedSettings.roundToPrecision(value, precision)
roundToPrecision(value, precision) == Round(value, precision) * precision
\* Number(value.toPrecision(15)): the value on the grid of the noise floor
toPrecision15(value, scale) == roundToPrecision(value, NoiseStep * scale)
\* SharedSettings.roundToLinePointDistancePrecision(settings, distance)
roundToLinePointDistancePrecision(settings, distance) ==
    IF settings.linePointDistancePrecision = None THEN distance
    ELSE roundToPrecision(distance, settings.linePointDistancePrecision[1])

Direction(d) == IF d = "E" THEN <<1, 0>> ELSE <<0, 1>>
\* the normal of a segment: its direction turned left
NormalOf(d) == IF d = "E" THEN <<0, 1>> ELSE <<-1, 0>>
Dot(u, v) == u[1] * v[1] + u[2] * v[2]
\* Math2D.distance(p, q), squared
Distance2(p, q) == (p[1] - q[1]) * (p[1] - q[1]) + (p[2] - q[2]) * (p[2] - q[2])

\* where segment i (from 0) of line starts
RECURSIVE SegmentStart(_, _)
SegmentStart(line, i) ==
    IF i = 0 THEN <<0, 0>>
    ELSE <<SegmentStart(line, i - 1)[1] + One * Direction(line[i])[1],
           SegmentStart(line, i - 1)[2] + One * Direction(line[i])[2]>>

\* the segment a pos lies on: Math.floor(pos * n), kept inside 0 .. n - 1
segmentOfPos(pos, line) == Min(Max(pos \div One, 0), Len(line) - 1)

\* LineEngine.getPoint(relativePos, segment, distance, transformedLine): parametric
\* evaluation of the segment, displaced by distance along its normal
getPointOnSegment(relativePos, segment, distance, line) ==
    LET s == SegmentStart(line, segment)
        d == Direction(line[segment + 1])
        n == NormalOf(line[segment + 1])
    IN  <<s[1] + relativePos * d[1] + distance * n[1],
          s[2] + relativePos * d[2] + distance * n[2]>>

\* LineEngine.getPoint(pos, undefined, distance, transformedLine)
getPointAtPos(pos, distance, line) ==
    getPointOnSegment(pos - segmentOfPos(pos, line) * One, segmentOfPos(pos, line),
                      distance, line)

\* LineEngine.getPoint(value, segment, distance, transformedLine) as the callers
\* write it: segment is undefined where the value is a pos
getPoint(value, isSegment, segment, distance, line) ==
    IF isSegment THEN getPointOnSegment(value, segment, distance, line)
    ELSE getPointAtPos(value, distance, line)

\* LineEngine.getNormalVector(value, segment, transformedLine)
getNormalVector(value, isSegment, segment, line) ==
    IF isSegment THEN NormalOf(line[segment + 1])
    ELSE NormalOf(line[segmentOfPos(value, line) + 1])

\* the nearest position on segment i: the foot of point, kept on the segment,
\* at the forced distance or else at the distance of point from the segment
projectOnSegment(point, line, i, forcedDistance) ==
    LET s == SegmentStart(line, i)
        delta == <<point[1] - s[1], point[2] - s[2]>>
        rel == Min(Max(Dot(delta, Direction(line[i + 1])), 0), One)
        dist == IF forcedDistance = None THEN Dot(delta, NormalOf(line[i + 1]))
                ELSE forcedDistance[1]
    IN  [pos |-> i * One + rel, segment |-> i, relativePos |-> rel, distance |-> dist,
         off |-> Distance2(point, getPointOnSegment(rel, i, dist, line))]

\* LineEngine.projectPoint(point, transformedLine, forcedDistance): the first
\* of the nearest projections on the segments
projectPoint(point, line, forcedDistance) ==
    LET best == CHOOSE i \in 0..(Len(line) - 1) :
                    /\ \A k \in 0..(Len(line) - 1) :
                          projectOnSegment(point, line, i, forcedDistance).off
                              <= projectOnSegment(point, line, k, forcedDistance).off
                    /\ \A k \in 0..(i - 1) :
                          projectOnSegment(point, line, k, forcedDistance).off
                              > projectOnSegment(point, line, i, forcedDistance).off
        p == projectOnSegment(point, line, best, forcedDistance)
    IN  [pos |-> p.pos, segment |-> p.segment, relativePos |-> p.relativePos,
         distance |-> p.distance]

\* optionsToTest of projectPointOnLine: the rounded value and its two neighbours
roundingOptions(valueToRound, posPrecision, isSegment, line) ==
    LET scale == Scale(isSegment, line)
        step == IF posPrecision = None THEN NoiseStep * scale ELSE posPrecision[1] * scale
        roundedValue == IF posPrecision = None
                        THEN toPrecision15(valueToRound, scale)
                        ELSE Min(Max(roundToPrecision(valueToRound, step), 0),
                                 Full(isSegment, line))
    IN  <<roundedValue, roundedValue + step, roundedValue - step>>

createProjectionResult(value, isSegment, line, distance, originalSegment) ==
    IF isSegment
    THEN [relativePos |-> value, segment |-> originalSegment,
          pos |-> originalSegment * One + value, distance |-> distance]
    ELSE [pos |-> value, segment |-> value \div One,
          relativePos |-> value - (value \div One) * One, distance |-> distance]

\* the value of a result that was rounded
roundedOf(result, isSegment) == IF isSegment THEN result.relativePos ELSE result.pos

findOptimalDistanceFromLine(value, isSegment, segment, line, point) ==
    LET pointOnLine == getPoint(value, isSegment, segment, 0, line)
        normalVector == getNormalVector(value, isSegment, segment, line)
        d2 == Dot(normalVector, normalVector)
    IN  Dot(<<point[1] - pointOnLine[1], point[2] - pointOnLine[2]>>, normalVector) \div d2

\* distance < minDistance, where minDistance starts at Number.POSITIVE_INFINITY (None)
Nearer(distance, minDistance) == minDistance = None \/ distance < minDistance[1]

\* the test of the winner with <= in place of <
keepLast(result, distance, acc) ==
    IF acc.minDistance = None \/ distance <= acc.minDistance[1]
    THEN [bestResult |-> result, minDistance |-> The(distance)]
    ELSE acc

\* if (distance < minDistance) { minDistance = distance; bestResult = result }
keepBest(result, distance, acc) ==
    IF Nearer(distance, acc.minDistance)
    THEN [bestResult |-> result, minDistance |-> The(distance)]
    ELSE acc

\* the body of the loop of findBestProjectionWithFixedDistance without its range test
testFixedUnfiltered(roundedValue, acc, c, original) ==
    LET result == createProjectionResult(roundedValue, c.hasSegment, c.line,
                                         c.forcedDistance[1], original.segment)
        pointOnLine == getPoint(roundedOf(result, c.hasSegment), c.hasSegment,
                                result.segment, c.forcedDistance[1], c.line)
    IN  keepBest(result, Distance2(c.point, pointOnLine), acc)

\* the body of the loop of findBestProjectionWithFixedDistance for one candidate:
\* acc = [bestResult, minDistance]
testFixed(roundedValue, acc, c, original) ==
    IF roundedValue < 0 \/ roundedValue > Full(c.hasSegment, c.line)
    THEN acc
    ELSE LET result == createProjectionResult(roundedValue, c.hasSegment, c.line,
                                              c.forcedDistance[1], original.segment)
             pointOnLine == getPoint(roundedOf(result, c.hasSegment), c.hasSegment,
                                     result.segment, c.forcedDistance[1], c.line)
         IN  keepBest(result, Distance2(c.point, pointOnLine), acc)

\* the body of the loop of findBestProjectionWithOptimalDistance for one candidate
testOptimal(roundedValue, acc, c, original) ==
    LET baseResult == createProjectionResult(roundedValue, c.hasSegment, c.line, 0,
                                             original.segment)
        optimalDistance == findOptimalDistanceFromLine(
                               roundedOf(baseResult, c.hasSegment), c.hasSegment,
                               baseResult.segment, c.line, c.point)
        result == [baseResult EXCEPT !.distance = optimalDistance]
        projectedPoint == getPoint(roundedOf(result, c.hasSegment), c.hasSegment,
                                   result.segment, optimalDistance, c.line)
    IN  keepBest(result, Distance2(c.point, projectedPoint), acc)

RECURSIVE fixedLoop(_, _, _, _, _)
fixedLoop(options, j, acc, c, original) ==
    IF j > Len(options) THEN acc
    ELSE fixedLoop(options, j + 1, testFixed(options[j], acc, c, original), c, original)

RECURSIVE optimalLoop(_, _, _, _, _)
optimalLoop(options, j, acc, c, original) ==
    IF j > Len(options) THEN acc
    ELSE optimalLoop(options, j + 1, testOptimal(options[j], acc, c, original), c, original)

findBestProjectionWithFixedDistance(options, c, original) ==
    fixedLoop(options, 1, [bestResult |-> original, minDistance |-> None], c, original).bestResult

\* bestResult.distance = SharedSettings.roundToLinePointDistancePrecision(settings, bestResult.distance)
roundBestDistance(best, settings) ==
    [best EXCEPT !.distance = roundToLinePointDistancePrecision(settings, best.distance)]

findBestProjectionWithOptimalDistance(options, c, original) ==
    roundBestDistance(
        optimalLoop(options, 1, [bestResult |-> original, minDistance |-> None], c,
                    original).bestResult,
        c.settings)

(***************************************************************************)
(* The state machine of one call of projectPointOnLine                     *)
(***************************************************************************)
\* the lines: one to MaxSegments segments, running east, or turning north after the first
Lines ==
    {[i \in 1..n |-> IF bend /\ i > 1 THEN "N" ELSE "E"] :
        n \in 1..MaxSegments, bend \in BOOLEAN}

\* the points: a grid around the lines
Points == ((0 - 2)..(MaxSegments * One + 2)) \X ((0 - 1)..(One + 1))

Calls ==
    [point : Points,
     line : Lines,
     settings : [linePointPosPrecision : {None, The(2 * NoiseStep)},
                 linePointDistancePrecision : {None, The(2)}],
     hasSegment : BOOLEAN,
     forcedDistance : {None, The(0), The(1)}]

ProjectionInit ==
    /\ call \in Calls
    /\ originalProjection = Nil
    /\ optionsToTest = <<>>
    /\ projection = Nil
    /\ pc = "projectPointOnLine"
    /\ index = <<>>
    /\ selected = <<>>
    /\ movedElements = <<>>
    /\ implicitlyMovedElements = <<>>
    /\ hasConflict = FALSE
    /\ isMovedLookup = <<>>
    /\ currentElements = <<>>
    /\ secondOutcome = <<>>
    /\ NoLayout

\* if (posPrecision == undefined && isSegment)
skipsRounding(c) == c.settings.linePointPosPrecision = None /\ c.hasSegment

\* projectPointOnLine up to the choice between the two searches
ProjectPointOnLine ==
    /\ pc = "projectPointOnLine"
    /\ LET original == projectPoint(call.point, call.line, call.forcedDistance) IN
       /\ originalProjection' = original
       /\ IF skipsRounding(call)
          THEN /\ projection' = original
               /\ pc' = "returned"
               /\ UNCHANGED optionsToTest
          ELSE /\ optionsToTest' = roundingOptions(roundedOf(original, call.hasSegment),
                                                   call.settings.linePointPosPrecision,
                                                   call.hasSegment, call.line)
               /\ pc' = "findBest"
               /\ UNCHANGED projection
    /\ UNCHANGED <<call, selectorVars, layoutVars>>

FindBestProjectionWithFixedDistance ==
    /\ pc = "findBest"
    /\ call.forcedDistance # None
    /\ projection' = findBestProjectionWithFixedDistance(optionsToTest, call, originalProjection)
    /\ pc' = "returned"
    /\ UNCHANGED <<call, originalProjection, optionsToTest, selectorVars, layoutVars>>

FindBestProjectionWithOptimalDistance ==
    /\ pc = "findBest"
    /\ call.forcedDistance = None
    /\ projection' = findBestProjectionWithOptimalDistance(optionsToTest, call, originalProjection)
    /\ pc' = "returned"
    /\ UNCHANGED <<call, originalProjection, optionsToTest, selectorVars, layoutVars>>

ProjectionNext ==
    \/ ProjectPointOnLine
    \/ FindBestProjectionWithFixedDistance
    \/ FindBestProjectionWithOptimalDistance

ProjectionSpec == ProjectionInit /\ [][ProjectionNext]_vars

(***************************************************************************)
(* Vocabulary of the properties                                            *)
(***************************************************************************)
Moved == ToSet(movedElements)
ImplicitlyMoved == ToSet(implicitlyMovedElements)
Selected == ToSet(selected)
\* the constructor has returned
Constructed == pc = "done"

ShapesAndPoints == {id \in DOMAIN index : IsCanvasElement(id) \/ IsCanvasPoint(id)}
Connectors == {id \in DOMAIN index : KindOf(id) = "SCanvasConnection"}
SegmentIndices(connection) == 0..(Len(index[connection].segments) - 1)
RelevantPointSet(connection, i) == ToSet(relevantPoints(connection, i))

\* the points the position of a canvas hanging in frame depends on: the enclosing
\* Shape, or the relevant points of the segment a Marker sits on
FrameDependencies(canvas) ==
    LET frame == findParentByFeature(canvas) IN
    CASE IsCanvasElement(frame) -> {frame}
      [] KindOf(frame) = "SMarker" ->
            RelevantPointSet(index[frame].parent, markerSegmentIndex(frame))
      [] OTHER -> {}

\* the ids the position of element depends on directly: pos, target,
\* lineProvider or its segment's points, enclosing Shape or Marker canvas
DependsOn(element) ==
    LET e == index[element] IN
    CASE e.kind \in ShapeKinds ->
            IF e.pos # Nil THEN {e.pos} ELSE FrameDependencies(e.parent)
      [] e.kind = "SAbsolutePoint" -> FrameDependencies(e.parent)
      [] e.kind = "SRelativePoint" ->
            IF KindOf(getById(e.target)) = "SCanvasConnection"
            THEN {LastSegmentEnd(e.target)}
            ELSE {e.target}
      [] e.kind = "SLinePoint" ->
            IF IsCanvasElement(getById(e.lineProvider)) THEN {e.lineProvider}
            ELSE IF KindOf(getById(e.lineProvider)) = "SCanvasConnection"
            THEN RelevantPointSet(e.lineProvider,
                     calcSegmentIndex(e.linePos, Len(index[e.lineProvider].segments)))
            ELSE {}
      [] OTHER -> {}

\* everything element depends on, directly or transitively
RECURSIVE DependsOnTransitively(_)
DependsOnTransitively(element) ==
    LET direct == DependsOn(element) \cap DOMAIN index IN
    direct \cup UNION {DependsOnTransitively(d) : d \in direct}

\* the invariant of the data model: every reference resolves, to an element
\* of a kind the field allows
WellFormed ==
    \A id \in DOMAIN index :
        LET e == index[id] IN
        /\ e.kind \in ShapeKinds => e.pos = Nil \/ IsCanvasPoint(getById(e.pos))
        /\ e.kind = "SRelativePoint" =>
              KindOf(getById(e.target)) \in ShapeKinds \cup PointKinds \cup {"SCanvasConnection"}
        /\ e.kind = "SLinePoint" =>
              KindOf(getById(e.lineProvider)) \in ShapeKinds \cup {"SCanvasConnection"}
        /\ e.kind = "SCanvasConnection" =>
              /\ IsCanvasPoint(getById(e.start))
              /\ \A j \in 1..Len(e.segments) :
                    /\ IsCanvasPoint(getById(e.segments[j].end))
                    /\ e.segments[j].bezier =>
                          /\ IsCanvasPoint(getById(e.segments[j].startControlPoint))
                          /\ IsCanvasPoint(getById(e.segments[j].endControlPoint))

(***************************************************************************)
(* Properties                                                              *)
(***************************************************************************)
\* C1: after construction movedElements and implicitlyMovedElements are disjoint.
C1_Partition == Constructed => Moved \cap ImplicitlyMoved = {}

\* a run in which the pruning pass moved a selected element to the implicit set
C1_Witness ==
    /\ Constructed
    /\ Moved # {}
    /\ Selected \cap ImplicitlyMoved # {}

PartiallyMoved(connection, i) ==
    /\ Cardinality(RelevantPointSet(connection, i) \cap Moved) = 1
    /\ RelevantPointSet(connection, i) \ (Moved \cup ImplicitlyMoved) # {}

\* element hangs directly on segment i of connection: a Line Point lying on
\* it, or an Absolute Point or pos-less Shape in the canvas of a Marker on it
HangsOnSegment(element, connection, i) ==
    LET e == index[element] IN
    \/ /\ e.kind = "SLinePoint"
       /\ e.lineProvider = connection
       /\ calcSegmentIndex(e.linePos, Len(index[connection].segments)) = i
    \/ /\ e.kind = "SAbsolutePoint" \/ (e.kind \in ShapeKinds /\ e.pos = Nil)
       /\ KindOf(findParentByFeature(e.parent)) = "SMarker"
       /\ index[findParentByFeature(e.parent)].parent = connection
       /\ markerSegmentIndex(findParentByFeature(e.parent)) = i

\* C3 as stated: whenever after construction some Connector segment is partially
\* moved, hasConflict is true (on a well-formed graph).
C3_ConflictWheneverPartiallyMoved ==
    (Constructed /\ WellFormed) =>
        \A c \in Connectors : \A i \in SegmentIndices(c) :
            PartiallyMoved(c, i) => hasConflict

\* C3 as amended: after construction, a partially moved Connector segment on
\* which a selected element hangs (a Line Point lying on it, content of a
\* Marker on it) makes hasConflict true.
C3_ConflictWhenSelectionHangsOnSegment ==
    Constructed =>
        \A c \in Connectors : \A i \in SegmentIndices(c) :
            (PartiallyMoved(c, i) /\ \E x \in Selected \cap ShapesAndPoints : HangsOnSegment(x, c, i))
                => hasConflict

\* a Line Point was selected together with one end of the segment it lies on
C3_Witness ==
    /\ Constructed
    /\ hasConflict
    /\ \E c \in Connectors : \E i \in SegmentIndices(c) :
          /\ PartiallyMoved(c, i)
          /\ \E x \in Selected \cap ShapesAndPoints :
                index[x].kind = "SLinePoint" /\ HangsOnSegment(x, c, i)

\* the selection is exactly the Shape shape, anchored at an Absolute Point
\* that no enclosing frame moves
SelectedShapeAtAbsolutePoint(shape) ==
    /\ selected = <<shape>>
    /\ IsCanvasElement(shape)
    /\ KindOf(getById(index[shape].pos)) = "SAbsolutePoint"
    /\ FrameDependencies(index[index[shape].pos].parent) = {}

\* C4 as stated: a Shape S at an Absolute Point P selected alone leaves both S
\* and P in movedElements after construction (on a well-formed graph).
C4_ShapeAndPosBothMoved ==
    (Constructed /\ WellFormed) =>
        \A shape \in DOMAIN index :
            SelectedShapeAtAbsolutePoint(shape) => {shape, index[shape].pos} \subseteq Moved

\* the loop of registerElements has ended and the pruning pass has not run
Expanded == pc = "registerElements" /\ currentElements = <<>>

\* C4 as amended: S and P are both in movedElements after expansion; after
\* construction movedElements is {P} and S is in implicitlyMovedElements.
C4_ShapePrunedToItsPos ==
    \A shape \in DOMAIN index :
        SelectedShapeAtAbsolutePoint(shape) =>
            /\ Expanded => Moved = {shape, index[shape].pos}
            /\ Constructed => Moved = {index[shape].pos} /\ shape \in ImplicitlyMoved

C4_Witness ==
    /\ Constructed
    /\ \E shape \in DOMAIN index : SelectedShapeAtAbsolutePoint(shape)

\* the selection is exactly the Connector connection, whose last segment ends at a Point
SelectedConnector(connection) ==
    /\ selected = <<connection>>
    /\ KindOf(connection) = "SCanvasConnection"
    /\ IsCanvasPoint(getById(LastSegmentEnd(connection)))

\* a Relative Point with neither a move-x nor a move-y edit
IsFixedRelativePoint(element) == KindOf(element) = "SRelativePoint" /\ ~index[element].editable

\* C5 as stated: a Connector selected alone leaves exactly the end Point E of
\* its last segment in movedElements, whatever kind of Point E is (on a
\* well-formed graph).
C5_ConnectorMovesItsEnd ==
    (Constructed /\ WellFormed) =>
        \A c \in DOMAIN index : SelectedConnector(c) => Moved = {LastSegmentEnd(c)}

\* C5 as amended: movedElements is {E} if E is an Absolute Point, a Line Point
\* or a Relative Point with a move edit; a Relative Point E without one is in
\* implicitlyMovedElements, and movedElements holds no Relative Point without
\* a move edit.
C5_ConnectorMovesItsEndOrItsTarget ==
    Constructed =>
        \A c \in DOMAIN index :
            SelectedConnector(c) =>
                IF IsFixedRelativePoint(LastSegmentEnd(c))
                THEN /\ LastSegmentEnd(c) \in ImplicitlyMoved \ Moved
                     /\ Moved # {}
                     /\ \A x \in Moved : ~IsFixedRelativePoint(x)
                ELSE Moved = {LastSegmentEnd(c)}

\* a Connector ending at a Line Point was selected alone
C5_Witness ==
    /\ Constructed
    /\ \E c \in DOMAIN index : SelectedConnector(c) /\ Moved = {LastSegmentEnd(c)}
                                /\ KindOf(LastSegmentEnd(c)) = "SLinePoint"

\* the selection is exactly the Relative Point point, which has no move edit
\* and targets a Shape
SelectedFixedRelativePoint(point) ==
    /\ selected = <<point>>
    /\ IsFixedRelativePoint(point)
    /\ IsCanvasElement(getById(index[point].target))

\* C6 as stated: the target Shape T ends in movedElements, the point R in
\* implicitlyMovedElements and not in movedElements (on a well-formed graph).
C6_TargetMovedPointImplicit ==
    (Constructed /\ WellFormed) =>
        \A point \in DOMAIN index :
            SelectedFixedRelativePoint(point) =>
                /\ index[point].target \in Moved
                /\ point \in ImplicitlyMoved \ Moved

\* C6 as amended: R is in implicitlyMovedElements and not in movedElements; T
\* is in movedElements if it has no pos and no enclosing Shape or Marker, and
\* in implicitlyMovedElements, with its pos Point moved instead, if it has a pos.
C6_TargetOrItsPosMoved ==
    Constructed =>
        \A point \in DOMAIN index :
            SelectedFixedRelativePoint(point) =>
                LET target == index[point].target IN
                /\ point \in ImplicitlyMoved \ Moved
                /\ (index[target].pos = Nil /\ FrameDependencies(index[target].parent) = {})
                      => target \in Moved
                /\ index[target].pos # Nil
                      => target \in ImplicitlyMoved \ Moved
                         /\ index[target].pos \in Moved \cup ImplicitlyMoved

\* the case the amendment is about: the target has a pos
C6_Witness ==
    /\ Constructed
    /\ \E point \in DOMAIN index :
          /\ SelectedFixedRelativePoint(point)
          /\ index[index[point].target].pos # Nil
          /\ index[point].target \in ImplicitlyMoved

\* the moved flags isMoved gives the relevant points of a segment, in the current state
MovedFlags(connection, i, consistencyChecks) ==
    mapIsMoved(relevantPoints(connection, i), 1, consistencyChecks, Return(Fields, <<>>))

\* C7: isCanvasConnectionSegmentMoved returns true if and only if all relevant
\* points of the segment are moved (on a well-formed graph).
C7_SegmentMovedIffAllMoved ==
    WellFormed => \A c \in Connectors : \A i \in SegmentIndices(c) : \A checks \in BOOLEAN :
        ~MovedFlags(c, i, checks).thrown =>
            (isCanvasConnectionSegmentMoved(c, i, checks, Fields).result
                <=> All(MovedFlags(c, i, checks).result))

\* segment i of connection is a bezier segment whose start and end are moved
\* and one of whose control points is not, by the flags given
ScenarioD(connection, i, flags) ==
    /\ index[connection].segments[i + 1].bezier
    /\ flags[1] /\ flags[2]
    /\ ~flags[3] \/ ~flags[4]

C9_PruneIdempotent ==
    [][PruneAgain =>
          /\ pc' = "prunedTwice"
          /\ movedElements' = movedElements
          /\ implicitlyMovedElements' = implicitlyMovedElements]_vars

\* the second pruning ran on a state from which the first had pruned something
C9_Witness ==
    /\ pc = "prunedTwice"
    /\ Moved # {}
    /\ Selected \cap ImplicitlyMoved # {}

\* every Line Point's lineProvider is dereferenced, in the pruning pass or in the sweep
DereferencedLineProviders ==
    {index[x].lineProvider : x \in {y \in DOMAIN index : index[y].kind = "SLinePoint"}}

\* C10: when an id dereferenced during the computation does not resolve, the
\* constructor raises an error instead of returning: it never returns with
\* the undefined result of a failed lookup in movedElements, nor after the
\* lookup of a Line Point's lineProvider failed.
C10_UnresolvedReferenceIsFatal ==
    Constructed =>
        /\ Undefined \notin Moved \cup ImplicitlyMoved
        /\ \A id \in DereferencedLineProviders : getById(id) # Undefined

\* the Line Points whose lineProvider resolves to content that is neither a
\* Shape nor a Connector
MistypedLinePoints ==
    {x \in DOMAIN index :
        /\ index[x].kind = "SLinePoint"
        /\ getById(index[x].lineProvider) # Undefined
        /\ KindOf(getById(index[x].lineProvider)) \notin ShapeKinds \cup {"SCanvasConnection"}}

\* C11: for a Line Point whose lineProvider resolves to content that is neither
\* a Shape nor a Connector, isElementImplicitlyMoved returns false, raises no
\* error and leaves hasConflict as it is, with and without consistency checks;
\* such a point, when selected, stays in movedElements.
C11_TypeMismatchIsSoft ==
    \A x \in MistypedLinePoints :
        /\ \A checks \in BOOLEAN :
              LET r == isElementImplicitlyMoved(x, checks, Fields) IN
              ~r.thrown /\ ~r.result /\ r.hasConflict = hasConflict
        /\ pc # "error"
        /\ (Constructed /\ x \in Selected) => (x \in Moved /\ x \notin ImplicitlyMoved)

\* a Line Point on the root was selected and the constructor returned
C11_Witness ==
    /\ Constructed
    /\ ~hasConflict
    /\ \E x \in MistypedLinePoints \cap Selected : x \in Moved

\* what the caller sees of the construction that has just ended
FirstOutcome ==
    Outcome([Fields EXCEPT !.thrown = (pc = "error")], implicitlyMovedElements)

Returned == pc = "returned"
\* it returned the engine's projection without building rounding candidates
ReturnedUnrounded == Returned /\ optionsToTest = <<>>

\* C13: projectPointOnLine returns the raw projection of the Line Engine,
\* without a candidate search, exactly when no linePointPosPrecision is
\* configured and the global pos is rounded (hasSegment = false); with
\* hasSegment = true the search is never skipped.
C13_SkipExactlyForGlobalPos ==
    Returned =>
        (ReturnedUnrounded <=>
            (call.settings.linePointPosPrecision = None /\ ~call.hasSegment))

\* C14: the result of projectPointOnLine has pos in [0,1] and relativePos in
\* [0,1], for every point, line, precision and both modes.
C14_ResultInRange ==
    Returned =>
        /\ 0 <= projection.pos /\ projection.pos <= Full(FALSE, call.line)
        /\ 0 <= projection.relativePos /\ projection.relativePos <= One

\* the candidate search ran before projectPointOnLine returned
ReturnedRounded == Returned /\ optionsToTest # <<>>

\* C15: the returned result carries the segment index of the original,
\* unrounded projection, whether relativePos or the global pos was rounded,
\* and that index is a valid index of the line's segments.
C15_SegmentHeldFixed ==
    Returned =>
        /\ projection.segment = originalProjection.segment
        /\ 0 <= projection.segment /\ projection.segment < Len(call.line)

\* is value inside [0,1]
InRange(value) == 0 <= value /\ value <= Full(call.hasSegment, call.line)

\* the candidates the search tests, in order: all of them when the distance
\* is optimised, those inside [0,1] when it is forced
TestedOptions ==
    IF call.forcedDistance = None THEN optionsToTest
    ELSE SelectSeq(optionsToTest, InRange)

\* the squared Euclidean distance from the input point to the world point of
\* the candidate value, at the forced or else at its optimal distance
CandidateDistance(value) ==
    LET segment == createProjectionResult(value, call.hasSegment, call.line, 0,
                                          originalProjection.segment).segment
        distance == IF call.forcedDistance = None
                    THEN findOptimalDistanceFromLine(value, call.hasSegment, segment,
                                                     call.line, call.point)
                    ELSE call.forcedDistance[1]
    IN  Distance2(call.point, getPoint(value, call.hasSegment, segment, distance, call.line))

\* C16: the returned result is the first of the tested candidates (exact
\* rounded value, rounded + step, rounded - step) whose world point has the
\* least Euclidean distance to the input point: no tested candidate is
\* strictly nearer, and no earlier one is as near.
C16_FirstNearestCandidateWins ==
    ReturnedRounded =>
        \E k \in 1..Len(TestedOptions) :
            /\ roundedOf(projection, call.hasSegment) = TestedOptions[k]
            /\ \A j \in 1..Len(TestedOptions) :
                  CandidateDistance(TestedOptions[k]) <= CandidateDistance(TestedOptions[j])
            /\ \A j \in 1..(k - 1) :
                  CandidateDistance(TestedOptions[j]) > CandidateDistance(TestedOptions[k])

\* the exact rounded value and a neighbour were equally near, and the exact value won
C16_Witness ==
    /\ ReturnedRounded
    /\ Len(TestedOptions) = 3
    /\ roundedOf(projection, call.hasSegment) = TestedOptions[1]
    /\ \E j \in 2..3 : CandidateDistance(TestedOptions[j]) = CandidateDistance(TestedOptions[1])

\* C17: with a forced distance, every candidate is evaluated at that distance,
\* only candidates inside [0,1] are tested, and the returned result carries
\* the forced distance unchanged, neither optimised nor rounded to the
\* distance precision.
C17_ForcedDistanceKept ==
    (Returned /\ call.forcedDistance # None) =>
        /\ projection.distance = call.forcedDistance[1]
        /\ ReturnedRounded =>
              /\ InRange(roundedOf(projection, call.hasSegment))
              /\ \E k \in 1..Len(TestedOptions) :
                    /\ roundedOf(projection, call.hasSegment) = TestedOptions[k]
                    /\ InRange(TestedOptions[k])
                    /\ projection = createProjectionResult(
                                        TestedOptions[k], call.hasSegment, call.line,
                                        call.forcedDistance[1], originalProjection.segment)

\* a forced distance that the distance precision would round, with a
\* candidate outside [0,1] left untested
C17_Witness ==
    /\ ReturnedRounded
    /\ call.forcedDistance = The(1)
    /\ call.settings.linePointDistancePrecision # None
    /\ projection.distance = 1
    /\ Len(TestedOptions) < Len(optionsToTest)

\* rounding the global pos to 1 gave the segment index n
SegmentBeyondLast ==
    /\ ReturnedRounded
    /\ call.forcedDistance # None
    /\ projection.pos = Full(FALSE, call.line)
    /\ projection.segment = Len(call.line)
    /\ originalProjection.segment = Len(call.line) - 1

\* the reference edges the expansion follows: Connector -> end of its last
\* segment, Marker -> anchor point, Shape -> pos, Relative Point without move
\* edit -> target
ReferenceEdges(element) ==
    LET e == index[element] IN
    (CASE e.kind = "SCanvasConnection" -> {e.segments[Len(e.segments)].end}
       [] e.kind = "SMarker" ->
             {IF e.pos = "start" THEN index[e.parent].start
              ELSE index[e.parent].segments[Len(index[e.parent].segments)].end}
       [] e.kind \in ShapeKinds /\ e.pos # Nil -> {e.pos}
       [] e.kind = "SRelativePoint" /\ ~e.editable -> {e.target}
       [] OTHER -> {}) \cap DOMAIN index

\* what is reached from the elements of set over at most steps reference edges
RECURSIVE ReachedWithin(_, _)
ReachedWithin(set, steps) ==
    IF steps = 0 THEN set
    ELSE ReachedWithin(set \cup UNION {ReferenceEdges(x) : x \in set}, steps - 1)

\* no element reaches itself over reference edges
AcyclicReferences ==
    \A x \in DOMAIN index :
        x \notin ReachedWithin(ReferenceEdges(x), Cardinality(DOMAIN index))

\* C18: on a content graph whose reference edges are acyclic, and for every
\* selection, the loop of registerElements reaches an empty work set.
C18_ExpansionTerminates == AcyclicReferences => <>(currentElements = <<>>)

\* the loop ended after following a chain of three reference edges from a Connector
C18_Witness ==
    /\ Expanded
    /\ selected = <<"conn">>
    /\ Moved = {"e", "s", "a"}

\* the elements the expansion processes: the selection and what it reaches
\* over reference edges
Processed == ReachedWithin(Selected, Cardinality(DOMAIN index))

\* the Relative Points without move edit that the expansion processes
ProcessedFixedRelativePoints == {x \in Processed : IsFixedRelativePoint(x)}

\* C19 as stated: after expansion and before pruning, a Relative Point without
\* move-x and move-y edit that the expansion processed is absent from
\* movedElements; only its target was queued.
C19_FixedRelativePointNotRecorded ==
    Expanded => \A x \in ProcessedFixedRelativePoints : x \notin Moved

\* C19 as amended: the expansion records a processed Relative Point without
\* move edit in movedElements and queues its target, so that after expansion
\* the point and (where it is a Shape or Point) its target are in
\* movedElements; the pruning pass removes the point, which is in
\* implicitlyMovedElements and not in movedElements after construction.
C19_FixedRelativePointRecordedThenPruned ==
    \A x \in ProcessedFixedRelativePoints :
        /\ Expanded =>
              /\ x \in Moved
              /\ (IsCanvasElement(getById(index[x].target)) \/ IsCanvasPoint(getById(index[x].target)))
                    => index[x].target \in Moved
        /\ Constructed => (x \in ImplicitlyMoved /\ x \notin Moved)

\* a Relative Point without move edit, reached from a selected Connector, after expansion
C19_Witness ==
    /\ Expanded
    /\ selected = <<"conn">>
    /\ "e" \in ProcessedFixedRelativePoints
    /\ "e" \in Moved
    /\ index["e"].target \in Moved

\* the content placed in the frame of its canvas: Absolute Points and Shapes without pos
FramedContent ==
    {x \in DOMAIN index :
        index[x].kind = "SAbsolutePoint" \/ (index[x].kind \in ShapeKinds /\ index[x].pos = Nil)}

\* the nearest Shape or Marker enclosing the canvas of x, or undefined
FrameOf(x) == findParentByFeature(index[x].parent)

\* the segment of its Connector a Marker is anchored at
AnchorSegment(marker) ==
    IF index[marker].pos = "start" THEN 0 ELSE Len(index[index[marker].parent].segments) - 1

\* the verdict the claim gives for x, from the verdicts r of the segment rule
\* and of isMoved on the enclosing Shape
FrameVerdict(x, checks) ==
    CASE KindOf(FrameOf(x)) = "SMarker" ->
            isCanvasConnectionSegmentMoved(index[FrameOf(x)].parent,
                                           AnchorSegment(FrameOf(x)), checks, Fields)
      [] IsCanvasElement(FrameOf(x)) -> isMoved(FrameOf(x), checks, Fields)
      [] OTHER -> Return(Fields, FALSE)

\* C20: an Absolute Point or Shape without pos is implicitly moved iff the
\* segment its enclosing Marker is anchored at (segment 0 at "start", the last
\* segment at "end") is moved by the segment rule, or iff its enclosing Shape
\* is moved, whichever of Marker and Shape is the nearest such ancestor; and
\* it is not implicitly moved when there is none.  After construction this
\* decides its membership of implicitlyMovedElements.
C20_MarkerCanvasFrame ==
    \A x \in FramedContent :
        /\ \A checks \in BOOLEAN :
              (~FrameVerdict(x, checks).thrown) =>
                  /\ ~isElementImplicitlyMoved(x, checks, Fields).thrown
                  /\ isElementImplicitlyMoved(x, checks, Fields).result
                        = FrameVerdict(x, checks).result
        /\ Constructed =>
              (x \in ImplicitlyMoved <=>
                  CASE KindOf(FrameOf(x)) = "SMarker" ->
                          RelevantPointSet(index[FrameOf(x)].parent, AnchorSegment(FrameOf(x)))
                              \cap (Moved \cup ImplicitlyMoved) # {}
                    [] IsCanvasElement(FrameOf(x)) ->
                          FrameOf(x) \in Moved \cup ImplicitlyMoved
                    [] OTHER -> FALSE)

\* a Shape without pos in a Marker at the end of a Connector of two segments is
\* implicitly moved with the last segment, while the first segment is not moved
C20_Witness ==
    /\ Constructed
    /\ \E x \in FramedContent \cap ImplicitlyMoved :
          /\ index[x].kind \in ShapeKinds
          /\ KindOf(FrameOf(x)) = "SMarker"
          /\ AnchorSegment(FrameOf(x)) = 1
          /\ RelevantPointSet(index[FrameOf(x)].parent, 0) \cap (Moved \cup ImplicitlyMoved) = {}

\* C24: the whole-graph sweep changes neither hasConflict nor movedElements.
C24_SweepIsReadOnly ==
    [][RegisterAdditionalImplicitlyMovedElements =>
          (hasConflict' = hasConflict /\ movedElements' = movedElements)]_vars

\* the sweep took in an unselected element hanging on a segment with one moved
\* and one unmoved relevant point, and hasConflict is still false
C24_Witness ==
    /\ Constructed
    /\ ~hasConflict
    /\ Moved # {}
    /\ \E c \in Connectors : \E i \in SegmentIndices(c) :
          /\ PartiallyMoved(c, i)
          /\ \E x \in ImplicitlyMoved \ Processed : HangsOnSegment(x, c, i)

\* the selector's fields with an empty isMovedLookup
Uncached == [Fields EXCEPT !.isMovedLookup = <<>>]

\* the verdict isParentCanvasImplicitlyMoved stores under the id of canvas,
\* computed against st
CanvasVerdict(canvas, st) ==
    CASE IsCanvasElement(findParentByFeature(canvas)) ->
            isMoved(findParentByFeature(canvas), FALSE, st)
      [] KindOf(findParentByFeature(canvas)) = "SMarker" ->
            isCanvasConnectionSegmentMoved(index[findParentByFeature(canvas)].parent,
                                           AnchorSegment(findParentByFeature(canvas)),
                                           FALSE, st)
      [] OTHER -> Return(st, FALSE)

\* what the entry of isMovedLookup under key would be, computed without the
\* cache against the present movedElements: for a Shape or Point isMoved, for
\* a canvas the verdict of its frame
Unmemoized(key) ==
    IF IsCanvasElement(getById(key)) \/ IsCanvasPoint(getById(key))
    THEN isMoved(key, FALSE, Uncached)
    ELSE CanvasVerdict(key, Uncached)

\* the pruning pass has returned and the sweep has not run
Pruned == pc = "pruned"

\* the sweep run from the present state with the fields st
SweepFrom(st) == sweep(AllIds, 1, [st |-> st, implicit |-> implicitlyMovedElements])

\* C25: after the pruning pass every entry of isMovedLookup equals what an
\* evaluation without the cache gives against the pruned movedElements, and
\* the sweep classifies the same elements as implicitly moved with the cache
\* as without it.
C25_MemoConsistent ==
    Pruned =>
        /\ \A key \in DOMAIN isMovedLookup :
              /\ ~Unmemoized(key).thrown
              /\ Unmemoized(key).result = isMovedLookup[key]
        /\ SweepFrom(Fields).st.thrown = SweepFrom(Uncached).st.thrown
        /\ ToSet(SweepFrom(Fields).implicit) = ToSet(SweepFrom(Uncached).implicit)

\* the cache holds the entry true for an element that the pruning pass has
\* removed from movedElements, and an entry for a canvas
C25_Witness ==
    /\ Pruned
    /\ \E key \in DOMAIN isMovedLookup \cap ImplicitlyMoved : isMovedLookup[key]
    /\ \E key \in DOMAIN isMovedLookup : key \notin ShapesAndPoints
    /\ \E key \in DOMAIN isMovedLookup : ~isMovedLookup[key]

\* C26: on a well-formed graph, at every point of the construction and for
\* every selection, each member of movedElements and of
\* implicitlyMovedElements is a Shape or a Point: no Connector and no Marker
\* is ever in either set.
C26_OnlyShapesAndPoints ==
    WellFormed =>
        \A x \in Moved \cup ImplicitlyMoved :
            /\ IsCanvasElement(x) \/ IsCanvasPoint(x)
            /\ KindOf(x) \notin {"SCanvasConnection", "SMarker"}

\* a Marker was selected together with a Relative Point whose target is a
\* Connector, and both sets have been filled
C26_Witness ==
    /\ WellFormed
    /\ Constructed
    /\ \E m \in Selected : KindOf(m) = "SMarker"
    /\ \E r \in Selected :
          KindOf(r) = "SRelativePoint" /\ KindOf(getById(index[r].target)) = "SCanvasConnection"
    /\ Moved # {}
    /\ ImplicitlyMoved # {}

\* C27: after construction every selected Shape or Point is in movedElements
\* or in implicitlyMovedElements, and so is the anchor point of every selected
\* Marker and the end point of the last segment of every selected Connector.
C27_SelectionCovered ==
    Constructed =>
        \A x \in Selected :
            LET e == index[x] IN
            /\ e.kind \in ShapeKinds \cup PointKinds => x \in Moved \cup ImplicitlyMoved
            /\ (e.kind = "SCanvasConnection" /\ e.segments[Len(e.segments)].end \in DOMAIN index)
                  => e.segments[Len(e.segments)].end \in Moved \cup ImplicitlyMoved
            /\ (e.kind = "SMarker" /\ e.pos = "start" /\ index[e.parent].start \in DOMAIN index)
                  => index[e.parent].start \in Moved \cup ImplicitlyMoved
            /\ (e.kind = "SMarker" /\ e.pos = "end"
                  /\ index[e.parent].segments[Len(index[e.parent].segments)].end \in DOMAIN index)
                  => index[e.parent].segments[Len(index[e.parent].segments)].end
                         \in Moved \cup ImplicitlyMoved

\* a Connector of two segments was selected together with a Shape that the
\* pruning pass moved over to implicitlyMovedElements
C27_Witness ==
    /\ Constructed
    /\ \E c \in Selected :
          /\ KindOf(c) = "SCanvasConnection"
          /\ Len(index[c].segments) = 2
          /\ index[c].segments[2].end \in Moved \cup ImplicitlyMoved
          /\ index[c].segments[1].end \notin Moved \cup ImplicitlyMoved
    /\ \E x \in Selected \cap ImplicitlyMoved : IsCanvasElement(x)

\* C28: after construction no member of movedElements is implicitly moved
\* when isElementImplicitlyMoved is evaluated against the final movedElements,
\* with the selector's cache as well as without it.
C28_ExplicitSetMinimal ==
    Constructed =>
        \A x \in Moved :
            /\ ~isElementImplicitlyMoved(x, FALSE, Uncached).thrown
            /\ ~isElementImplicitlyMoved(x, FALSE, Uncached).result
            /\ ~isElementImplicitlyMoved(x, FALSE, Fields).result

\* the pruning pass took a Shape and a Relative Point out of movedElements,
\* each depending on a Point that stayed in it, and movedElements keeps two members
C28_Witness ==
    /\ Constructed
    /\ Cardinality(Moved) = 2
    /\ \E x \in Selected \cap ImplicitlyMoved : IsCanvasElement(x) /\ index[x].pos \in Moved
    /\ \E r \in Processed \cap ImplicitlyMoved : KindOf(r) = "SRelativePoint"

\* segment i of connection has a relevant point that is moved, explicitly or
\* implicitly, and a relevant point that is not moved
MixedSegment(connection, i) ==
    /\ RelevantPointSet(connection, i) \cap (Moved \cup ImplicitlyMoved) # {}
    /\ RelevantPointSet(connection, i) \ (Moved \cup ImplicitlyMoved) # {}

\* the elements the pruning pass may evaluate: what the expansion recorded,
\* and everything their positions depend on
EvaluatedByPruning ==
    (Processed \cap ShapesAndPoints)
        \cup UNION {DependsOnTransitively(x) : x \in Processed \cap ShapesAndPoints}

\* segment i of connection is needed to decide an element of movedElements
NeededSegment(connection, i) ==
    \E y \in EvaluatedByPruning : HangsOnSegment(y, connection, i)

\* C29: hasConflict is false when the constructor starts and stays false
\* until the pruning pass; once true it is never false again; and it is true
\* after construction only if some Connector segment that the pruning pass
\* needed for an element of movedElements has a moved and an unmoved relevant
\* point.
C29_ConflictSound ==
    /\ ~hasConflict
    /\ [](pc = "registerElements" => ~hasConflict)
    /\ [][hasConflict => hasConflict']_vars
    /\ []((Constructed /\ hasConflict) =>
            \E c \in Connectors : \E i \in SegmentIndices(c) :
                MixedSegment(c, i) /\ NeededSegment(c, i))

\* hasConflict was set for a segment with a moved and an unmoved relevant
\* point, needed for recorded content of a Marker that sits on it
C29_Witness ==
    /\ Constructed
    /\ hasConflict
    /\ \E c \in Connectors : \E i \in SegmentIndices(c) :
          /\ MixedSegment(c, i)
          /\ NeededSegment(c, i)
          /\ \E x \in Processed \cap FramedContent : HangsOnSegment(x, c, i)

\* C30: a selector constructed with an empty selection has an empty
\* movedElements, an empty implicitlyMovedElements, and hasConflict false;
\* and on a well-formed graph that construction raises no error.
C30_EmptySelectionMovesNothing ==
    /\ (Constructed /\ selected = <<>>) =>
          /\ movedElements = <<>>
          /\ implicitlyMovedElements = <<>>
          /\ ~hasConflict
    /\ (WellFormed /\ selected = <<>>) => pc # "error"

\* the sweep has gone over a graph with Shapes, Points, a Connector and a
\* Marker, answered false for each, and filled the lookup on the way
C30_Witness ==
    /\ Constructed
    /\ selected = <<>>
    /\ Connectors # {}
    /\ \E m \in DOMAIN index : index[m].kind = "SMarker"
    /\ \E key \in DOMAIN isMovedLookup : ~isMovedLookup[key]
    /\ Moved \cup ImplicitlyMoved = {}

(***************************************************************************)
(* Layout: the default outline of an element (BaseLayoutConfig.outline)    *)
(* and the bounds of a marker (CanvasLayoutConfig.calculateMarkerBounds).  *)
(* The arguments are whole numbers of units, refX and refY are counted in  *)
(* halves; every coordinate and size of a result is counted in halves of a *)
(* unit, so that width / 2 and width * refX are whole numbers of them.     *)
(***************************************************************************)
\* largest |x|, |y| of a position
MaxCoordinate == 1
\* largest width and height
MaxSize == 2
\* the 2 of height / 2: results are counted in halves
Halves == 2
\* the 8 of 0.125 = 1 / 8: values of Position are counted in eighths
Eighths == 8

\* v units, and v / 2 units, in halves of a unit
Whole(v) == Halves * v
Halved(v) == (Halves * v) \div 2

XY(x, y) == [x |-> x, y |-> y]

\* BaseLayoutConfig.lineSegment
lineSegment(x, y, origin, originSegment) ==
    [type |-> "LineSegment.TYPE", end |-> XY(x, y), origin |-> origin,
     originSegment |-> originSegment]

\* an outline that runs from the center right up and around against the clock
outlineCounterClockwise(position, size, id) ==
    LET x == position.x
        y == position.y
        width == size.width
        height == size.height
        startPos == XY(Whole(x) + Whole(width), Whole(y) + Halved(height))
    IN  [start |-> startPos,
         segments |-> <<
            lineSegment(Whole(x) + Whole(width), Whole(y), id, 0),
            lineSegment(Whole(x) + Halved(width), Whole(y), id, 1),
            lineSegment(Whole(x), Whole(y), id, 2),
            lineSegment(Whole(x), Whole(y) + Halved(height), id, 3),
            lineSegment(Whole(x), Whole(y) + Whole(height), id, 4),
            lineSegment(Whole(x) + Halved(width), Whole(y) + Whole(height), id, 5),
            lineSegment(Whole(x) + Whole(width), Whole(y) + Whole(height), id, 6),
            lineSegment(startPos.x, startPos.y, id, 7)>>,
         isClosed |-> TRUE]

\* BaseLayoutConfig.outline(layout, element, position, size, id)
outline(position, size, id) ==
    LET x == position.x
        y == position.y
        width == size.width
        height == size.height
        startPos == XY(Whole(x) + Whole(width), Whole(y) + Halved(height))
    IN  [start |-> startPos,
         segments |-> <<
            lineSegment(Whole(x) + Whole(width), Whole(y) + Whole(height), id, 0),
            lineSegment(Whole(x) + Halved(width), Whole(y) + Whole(height), id, 1),
            lineSegment(Whole(x), Whole(y) + Whole(height), id, 2),
            lineSegment(Whole(x), Whole(y) + Halved(height), id, 3),
            lineSegment(Whole(x), Whole(y), id, 4),
            lineSegment(Whole(x) + Halved(width), Whole(y), id, 5),
            lineSegment(Whole(x) + Whole(width), Whole(y), id, 6),
            lineSegment(startPos.x, startPos.y, id, 7)>>,
         isClosed |-> TRUE]

\* scope.Position, in eighths
Position ==
    [Right |-> 0, BottomRight |-> 1, Bottom |-> 2, BottomLeft |-> 3,
     Left |-> 4, TopLeft |-> 5, Top |-> 6, TopRight |-> 7]

\* the point of line at the global position pos (in eighths): every segment
\* takes the same share of [0, 1], and a straight segment is run through linearly
pointAtPosition(line, pos) ==
    LET n == Len(line.segments)
        segment == Min((pos * n) \div Eighths, n - 1)
        local == pos * n - segment * Eighths
        from == IF segment = 0 THEN line.start ELSE line.segments[segment].end
        to == line.segments[segment + 1].end
    IN  XY(from.x + ((to.x - from.x) * local) \div Eighths,
           from.y + ((to.y - from.y) * local) \div Eighths)

\* the corner of bounds turned by rotation degrees about the origin
rotatePoint(point, rotation) ==
    CASE rotation = 0 -> point
      [] rotation = 90 -> XY(-point.y, point.x)
      [] rotation = 180 -> XY(-point.x, -point.y)
      [] rotation = 270 -> XY(point.y, -point.x)

SetMin(values) == CHOOSE v \in values : \A w \in values : v <= w
SetMax(values) == CHOOSE v \in values : \A w \in values : w <= v

\* Math2D.rotateBounds: the axis-aligned box around the four turned corners
rotateBounds(bounds, rotation) ==
    LET corners == {rotatePoint(XY(bounds.position.x + dx, bounds.position.y + dy), rotation) :
                        dx \in {0, bounds.size.width}, dy \in {0, bounds.size.height}}
        xs == {c.x : c \in corners}
        ys == {c.y : c \in corners}
    IN  [position |-> XY(SetMin(xs), SetMin(ys)),
         size |-> [width |-> SetMax(xs) - SetMin(xs), height |-> SetMax(ys) - SetMin(ys)]]

\* CanvasLayoutConfig.calculateRotatedRectangleBounds
calculateRotatedRectangleBounds(pos, rotation, x, y, width, height) ==
    LET bounds == rotateBounds([position |-> XY(x, y),
                                size |-> [width |-> width, height |-> height]],
                               rotation)
    IN  [position |-> XY(bounds.position.x + pos.x, bounds.position.y + pos.y),
         size |-> bounds.size]

\* calculateMarkerBounds with the rectangle offset to the other side
calculateMarkerBoundsMirrored(markerLayout) ==
    LET marker == markerLayout.marker
        x == marker.width * marker.refX
        y == marker.height * marker.refY
    IN  calculateRotatedRectangleBounds(
            XY(Whole(markerLayout.position.x), Whole(markerLayout.position.y)),
            markerLayout.rotation, x, y, Whole(marker.width), Whole(marker.height))

\* CanvasLayoutConfig.calculateMarkerBounds(markerLayout)
calculateMarkerBounds(markerLayout) ==
    LET marker == markerLayout.marker
        x == -(marker.width * marker.refX)
        y == -(marker.height * marker.refY)
    IN  calculateRotatedRectangleBounds(
            XY(Whole(markerLayout.position.x), Whole(markerLayout.position.y)),
            markerLayout.rotation, x, y, Whole(marker.width), Whole(marker.height))

Coordinates == (0 - MaxCoordinate)..MaxCoordinate
Sizes == 0..MaxSize
Positions == {XY(x, y) : x \in Coordinates, y \in Coordinates}
Rotations == {0, 90, 180, 270}

\* the calls of outline
OutlineCalls ==
    {[op |-> "outline", position |-> position,
      size |-> [width |-> width, height |-> height]] :
        position \in Positions, width \in Sizes, height \in Sizes}

\* the calls of calculateMarkerBounds: refX and refY in halves, from 0 to 1
MarkerCalls ==
    {[op |-> "calculateMarkerBounds",
      markerLayout |-> [marker |-> [width |-> width, height |-> height,
                                    refX |-> refX, refY |-> refY],
                        position |-> position, rotation |-> rotation]] :
        width \in Sizes, height \in Sizes, refX \in 0..Halves, refY \in 0..Halves,
        position \in Positions, rotation \in Rotations}

\* neither a selector nor a projection is at work
NoSelector ==
    /\ index = <<>>
    /\ selected = <<>>
    /\ movedElements = <<>>
    /\ implicitlyMovedElements = <<>>
    /\ hasConflict = FALSE
    /\ isMovedLookup = <<>>
    /\ currentElements = <<>>
    /\ secondOutcome = <<>>

LayoutInit ==
    /\ layoutCall \in OutlineCalls \cup MarkerCalls
    /\ layoutResult = <<>>
    /\ connections = <<>>
    /\ raised = <<>>
    /\ pc = "layout"
    /\ NoSelector
    /\ NoProjection

\* the call of outline returns
Outline ==
    /\ pc = "layout"
    /\ layoutCall.op = "outline"
    /\ layoutResult' = <<outline(layoutCall.position, layoutCall.size, "id")>>
    /\ pc' = "returned"
    /\ UNCHANGED <<layoutCall, connections, raised, selectorVars, projectionVars>>

\* the call of calculateMarkerBounds returns
CalculateMarkerBounds ==
    /\ pc = "layout"
    /\ layoutCall.op = "calculateMarkerBounds"
    /\ layoutResult' = <<calculateMarkerBounds(layoutCall.markerLayout)>>
    /\ pc' = "returned"
    /\ UNCHANGED <<layoutCall, connections, raised, selectorVars, projectionVars>>

LayoutNext == Outline \/ CalculateMarkerBounds

LayoutSpec == LayoutInit /\ [][LayoutNext]_vars

\* the location of the box at position with size that a name of Position
\* stands for, y growing downwards
BoxLocation(name, position, size) ==
    LET left == Whole(position.x)
        center == Whole(position.x) + Halved(size.width)
        right == Whole(position.x) + Whole(size.width)
        top == Whole(position.y)
        middle == Whole(position.y) + Halved(size.height)
        bottom == Whole(position.y) + Whole(size.height)
    IN  CASE name = "Right" -> XY(right, middle)
          [] name = "BottomRight" -> XY(right, bottom)
          [] name = "Bottom" -> XY(center, bottom)
          [] name = "BottomLeft" -> XY(left, bottom)
          [] name = "Left" -> XY(left, middle)
          [] name = "TopLeft" -> XY(left, top)
          [] name = "Top" -> XY(center, top)
          [] name = "TopRight" -> XY(right, top)

\* the call of outline has returned
Outlined == pc = "returned" /\ layoutCall.op = "outline"

\* C21: the default outline is a closed line of 8 straight segments with
\* originSegment 0 to 7 that starts and ends at the center right of the box,
\* and for k = 0..7 its point at the global position k/8 is the location of
\* the box named by the Position whose value is k/8.
C21_OutlineMatchesPosition ==
    Outlined =>
        LET line == layoutResult[1] IN
        /\ line.isClosed
        /\ Len(line.segments) = 8
        /\ \A j \in 1..8 :
              /\ line.segments[j].type = "LineSegment.TYPE"
              /\ line.segments[j].originSegment = j - 1
        /\ line.start = BoxLocation("Right", layoutCall.position, layoutCall.size)
        /\ line.segments[8].end = line.start
        /\ DOMAIN Position =
              {"Right", "BottomRight", "Bottom", "BottomLeft", "Left", "TopLeft", "Top", "TopRight"}
        /\ {Position[name] : name \in DOMAIN Position} = 0..7
        /\ \A name \in DOMAIN Position :
              pointAtPosition(line, Position[name])
                  = BoxLocation(name, layoutCall.position, layoutCall.size)

\* the outline of a box of width 2 and height 1 away from the origin, whose
\* eight locations are eight different points
C21_Witness ==
    /\ Outlined
    /\ layoutCall.position = XY(1, 0 - 1)
    /\ layoutCall.size = [width |-> 2, height |-> 1]
    /\ Cardinality({pointAtPosition(layoutResult[1], k) : k \in 0..7}) = 8
    /\ pointAtPosition(layoutResult[1], Position.Bottom) = XY(4, 0)

\* the call of calculateMarkerBounds has returned
MarkerBounded == pc = "returned" /\ layoutCall.op = "calculateMarkerBounds"

\* the point at the fractions (refX, refY), in halves, of bounds
FractionPoint(bounds, refX, refY) ==
    XY(bounds.position.x + (refX * bounds.size.width) \div Halves,
       bounds.position.y + (refY * bounds.size.height) \div Halves)

\* C23: for rotation 0 the bounds of a marker have the size (width, height),
\* their origin lies at the marker position offset by (-width * refX,
\* -height * refY), and their point at the fractions (refX, refY) is the
\* marker position, the start or end point of the connector.
C23_MarkerAnchored ==
    (MarkerBounded /\ layoutCall.markerLayout.rotation = 0) =>
        LET markerLayout == layoutCall.markerLayout
            marker == markerLayout.marker
            anchor == XY(Whole(markerLayout.position.x), Whole(markerLayout.position.y))
            bounds == layoutResult[1]
        IN  /\ bounds.size = [width |-> Whole(marker.width), height |-> Whole(marker.height)]
            /\ bounds.position = XY(anchor.x - marker.width * marker.refX,
                                    anchor.y - marker.height * marker.refY)
            /\ FractionPoint(bounds, marker.refX, marker.refY) = anchor

\* the bounds of an unrotated marker of width 2 and height 1 with refX = 1/2
\* and refY = 1, which lie apart from the anchor
C23_Witness ==
    /\ MarkerBounded
    /\ layoutCall.markerLayout.rotation = 0
    /\ layoutCall.markerLayout.marker = [width |-> 2, height |-> 1, refX |-> 1, refY |-> 2]
    /\ layoutCall.markerLayout.position = XY(1, 1)
    /\ layoutResult[1].position = XY(0, 0)
    /\ layoutResult[1].size = [width |-> 4, height |-> 2]

(***************************************************************************)
(* Connections: scope.internal.createConnection and the with operator on   *)
(* a CanvasConnection (layoutElement.ts).  A connection is the record of   *)
(* its fields.  The line points that createConnection makes for a start or *)
(* end on a CanvasElement or CanvasConnection are objects shared by the    *)
(* connection, its providers and its segments: the connection holds their  *)
(* pos (in halves) in startPoint and endPoint, and start and the ends of   *)
(* segments name them.                                                     *)
(***************************************************************************)
\* most connections created
MaxConnections == 2
\* most segments a callback gives to over
MaxOverSegments == 2

\* the contents a connection can start or end at
EndContents == {[type |-> t] : t \in {"canvasElement", "canvasConnection", "canvasPoint"}}

\* (start.type == "canvasElement") || (start.type == "canvasConnection")
onLine(content) == content.type \in {"canvasElement", "canvasConnection"}

\* args.lineType: not given, or one of the line types
LineTypes == {None, The("axisAligned"), The("line")}

\* scope.internal.createConnection(start, end, class, target, canvasScope)
createConnection(start, end, lineTypeArg) ==
    LET lineType == IF lineTypeArg = None THEN "axisAligned" ELSE lineTypeArg[1]
        endPoint == IF onLine(end) THEN "endPoint" ELSE "originalEnd"
        segment == IF lineType = "axisAligned"
                   THEN [type |-> "canvasAxisAlignedSegment", end |-> endPoint]
                   ELSE [type |-> "canvasLineSegment", end |-> endPoint]
    IN  [type |-> "canvasConnection",
         start |-> IF onLine(start) THEN "startPoint" ELSE "originalStart",
         contents |-> <<segment>>,
         startPoint |-> IF onLine(start) THEN The(0) ELSE None,
         endPoint |-> IF onLine(end) THEN The(1) ELSE None,
         originalStart |-> start,
         originalEnd |-> end]

\* what a callback of with does: nothing to over; over = an object without
\* segments that holds start(startPos); or over = start(startPos) followed by
\* one call fn of the line builder that adds count segments, the last of
\* them to end(endPos), the others to absolute points
Callbacks ==
    {[over |-> "null"], [over |-> "object", startPos |-> 0]}
    \cup {[over |-> "builder", startPos |-> startPos, fn |-> fn, count |-> count,
           endPos |-> endPos] :
            startPos \in 0..1, fn \in {"line", "axisAligned"},
            count \in 0..MaxOverSegments, endPos \in 0..1}

\* self.startProvider(pos) and self.endProvider(pos): the line point, moved to
\* pos, or the start or end itself
startProvider(self, pos) ==
    [self EXCEPT !.startPoint = IF onLine(self.originalStart) THEN The(pos) ELSE None]
endProvider(self, pos) ==
    [self EXCEPT !.endPoint = IF onLine(self.originalEnd) THEN The(pos) ELSE None]
startOf(self) == IF onLine(self.originalStart) THEN "startPoint" ELSE "originalStart"
endOf(self) == IF onLine(self.originalEnd) THEN "endPoint" ELSE "originalEnd"

\* lineBuilderProto.line / lineBuilderProto.axisAligned adding count segments
builtSegments(self, callback) ==
    [j \in 1..callback.count |->
        [type |-> IF callback.fn = "line" THEN "canvasLineSegment"
                  ELSE "canvasAxisAlignedSegment",
         end |-> IF j = callback.count THEN endOf(self) ELSE "apos"]]

\* callback.callWithScope(result): the connection after the calls of its
\* providers, and result.over
callWithScope(self, callback) ==
    CASE callback.over = "null" -> [self |-> self, over |-> None]
      [] callback.over = "object" ->
            [self |-> startProvider(self, callback.startPos),
             over |-> The([start |-> startOf(self), segments |-> None])]
      [] callback.over = "builder" ->
            [self |-> IF callback.count = 0
                      THEN startProvider(self, callback.startPos)
                      ELSE endProvider(startProvider(self, callback.startPos), callback.endPos),
             over |-> The([start |-> startOf(self),
                           segments |-> The(builtSegments(self, callback))])]

\* the messages of the errors a with can raise: of the validation of its
\* scope, and of error("over must define at least one segment")
ValidationError == "validateObject"
NoSegmentsError == "over must define at least one segment"

\* the outcomes of _validateCanvasConnectionWithScope: over is declared as an
\* optional object whose segments are a list; whether a null in place of the
\* list is let through is decided by validateObject
validates(over) ==
    IF over # None /\ over[1].segments = None THEN BOOLEAN ELSE {TRUE}

\* _canvasConnectionWith assigning start and contents without the test of segments
canvasConnectionWithUnchecked(self, callback, valid) ==
    LET called == callWithScope(self, callback)
        over == called.over
    IN  IF ~valid
        THEN [self |-> called.self, raised |-> The(ValidationError)]
        ELSE IF over # None /\ over[1].segments # None
        THEN [self |-> [called.self EXCEPT !.start = over[1].start,
                                           !.contents = over[1].segments[1]],
              raised |-> None]
        ELSE [self |-> called.self, raised |-> None]

\* _canvasConnectionWith(self, callback); valid: the validation lets result pass
canvasConnectionWith(self, callback, valid) ==
    LET called == callWithScope(self, callback)
        over == called.over
    IN  IF ~valid
        THEN [self |-> called.self, raised |-> The(ValidationError)]
        ELSE IF over # None
        THEN IF over[1].segments = None \/ Len(over[1].segments[1]) = 0
             THEN [self |-> called.self, raised |-> The(NoSegmentsError)]
             ELSE [self |-> [called.self EXCEPT !.start = over[1].start,
                                                !.contents = over[1].segments[1]],
                   raised |-> None]
        ELSE [self |-> called.self, raised |-> None]

ConnectionInit ==
    /\ connections = <<>>
    /\ raised = None
    /\ layoutCall = [op |-> "none"]
    /\ layoutResult = <<>>
    /\ pc = "connections"
    /\ NoSelector
    /\ NoProjection

\* connection = scope.internal.createConnection(start, end, ...)
CreateConnection ==
    /\ pc = "connections"
    /\ Len(connections) < MaxConnections
    /\ \E start \in EndContents, end \in EndContents, lineType \in LineTypes :
          /\ connections' = Append(connections, createConnection(start, end, lineType))
          /\ layoutCall' = [op |-> "createConnection"]
    /\ raised' = None
    /\ UNCHANGED <<layoutResult, pc, selectorVars, projectionVars>>

\* connection with callback, for a connection created before
With ==
    /\ pc = "connections"
    /\ \E i \in 1..Len(connections), callback \in Callbacks :
          \E valid \in validates(callWithScope(connections[i], callback).over) :
              LET r == canvasConnectionWith(connections[i], callback, valid)
              IN  /\ connections' = [connections EXCEPT ![i] = r.self]
                  /\ raised' = r.raised
                  /\ layoutCall' = [op |-> "with", self |-> i,
                                    over |-> callWithScope(connections[i], callback).over]
    /\ UNCHANGED <<layoutResult, pc, selectorVars, projectionVars>>

ConnectionNext == CreateConnection \/ With

ConnectionSpec == ConnectionInit /\ [][ConnectionNext]_vars

\* the last operation was a with whose callback set over, to an object whose
\* segments are null (None) or the list segments (The(segments))
WithOver == layoutCall.op = "with" /\ layoutCall.over # None
OverSegments == layoutCall.over[1].segments

\* every connection has at least one segment
AtLeastOneSegment == \A i \in 1..Len(connections) : Len(connections[i].contents) >= 1

\* a step that creates a connection gives it exactly one segment
CreatesOneSegment ==
    Len(connections') > Len(connections) =>
        /\ Len(connections') = Len(connections) + 1
        /\ Len(connections'[Len(connections')].contents) = 1

\* a step that raises an error leaves the fields start and contents of every
\* connection as they were
ErrorLeavesRoute ==
    raised' # None =>
        /\ Len(connections') = Len(connections)
        /\ \A i \in 1..Len(connections) :
              /\ connections'[i].start = connections[i].start
              /\ connections'[i].contents = connections[i].contents

====
